---- MODULE Spec2Model ----
(***************************************************************************)
(* Model of the prior overwrite engine (src/overwrite.py, class Overwrite)  *)
(* and of the exchange-file writer (src/store.py, class PriorStore).        *)
(*                                                                          *)
(* Arrays are sequences; array offsets are kept 0-based as in the source,   *)
(* so At(a, o) is the source's a[o].                                        *)
(***************************************************************************)
EXTENDS Integers, Sequences, FiniteSets, TLC

VARIABLES
    pc,            \* position of Overwrite.overwrite (or of the other drivers)
    keys,          \* priors_ds.groups.keys(): the group names of the exchange file
    priors_h,      \* handle of the exchange file: [state, opens]
    sos,           \* the canonical stores on disk, one per run type
    handles,       \* the canonical-store handles that are open
    key,           \* 1-based position of the loop over keys
    cur,           \* priors_ds[key]: the group being merged
    source, prior, run_type, prior_indexes, data, group,
    prior_ids, sos_ids, test_indexes, index_t, success,
    out,           \* the status lines printed so far
    entry,         \* PriorStore: the (source, prior, data) entry being written
    ds             \* PriorStore: the group created for that entry

engineVars == <<pc, keys, priors_h, sos, handles, key, cur, source, prior,
                run_type, prior_indexes, data, group, prior_ids, sos_ids,
                test_indexes, index_t, success, out>>
storeVars == <<entry, ds>>
vars == <<engineVars, storeVars>>

----------------------------------------------------------------------------
(* Bounds *)
MaxIds == 3        \* longest store identifier array of OffsetSpec
MaxSrc == 2        \* longest source identifier array of OffsetSpec
MaxN == 2          \* most rows (identifiers) of one exchange-file group
MaxK == 3          \* most time columns of one exchange-file group
NumGroups == 2     \* groups of a multi-group exchange file

IdUniverse == {10, 20, 30, 40}

----------------------------------------------------------------------------
(* numpy helpers used by Overwrite.overwrite *)

At(a, o) == a[o + 1]

Range(s) == {s[x] : x \in DOMAIN s}

Injective(s) == \A x, y \in DOMAIN s : s[x] = s[y] => x = y

SeqsUpTo(S, lo, hi) == UNION {[1..n -> S] : n \in lo..hi}

InjSeqs(S, lo, hi) == {s \in SeqsUpTo(S, lo, hi) : Injective(s)}

\* Insert offset o into the offsets s, which are ordered by their value in a,
\* behind every offset whose value is not larger.
RECURSIVE InsertSorted(_, _, _)
InsertSorted(a, s, o) ==
    IF s = <<>> THEN <<o>>
    ELSE IF At(a, s[Len(s)]) <= At(a, o) THEN Append(s, o)
    ELSE Append(InsertSorted(a, SubSeq(s, 1, Len(s) - 1), o), s[Len(s)])

RECURSIVE ArgSortUpTo(_, _)
ArgSortUpTo(a, n) ==
    IF n = 0 THEN <<>> ELSE InsertSorted(a, ArgSortUpTo(a, n - 1), n - 1)

\* np.argsort(a): the offsets of a in ascending order of their values.
ArgSort(a) == ArgSortUpTo(a, Len(a))

\* np.searchsorted(a, v, sorter=sorter), side='left': binary search for the
\* first position of the sorted view whose value is not below v.
RECURSIVE Bisect(_, _, _, _, _)
Bisect(a, sorter, v, lo, hi) ==
    IF lo >= hi THEN lo
    ELSE LET mid == (lo + hi) \div 2
         IN  IF At(a, At(sorter, mid)) < v
             THEN Bisect(a, sorter, v, mid + 1, hi)
             ELSE Bisect(a, sorter, v, lo, mid)

SearchSorted(a, v, sorter) ==
    [x \in DOMAIN v |-> Bisect(a, sorter, v[x], 0, Len(a))]

\* a[idx] with an integer array idx: defined when every offset is inside a
\* (numpy raises IndexError otherwise).
InBounds(a, idx) == \A x \in DOMAIN idx : idx[x] >= 0 /\ idx[x] < Len(a)

Take(a, idx) == [x \in DOMAIN idx |-> At(a, idx[x])]

\* Offsets without the composition with sorter: the positions in the sorted
\* view.
OffsetsSortedView(a, v) ==
    LET pos == SearchSorted(a, v, ArgSort(a))
    IN  IF InBounds(a, pos)
        THEN [ok |-> TRUE, idx |-> pos]
        ELSE [ok |-> FALSE, idx |-> <<>>]

\* sorter = np.argsort(a); sorter[np.searchsorted(a, v, sorter=sorter)]
\* The result is [ok, idx]: ok is FALSE when the indexing raises IndexError.
Offsets(a, v) ==
    LET sorter == ArgSort(a)
        pos == SearchSorted(a, v, sorter)
    IN  IF InBounds(sorter, pos)
        THEN [ok |-> TRUE, idx |-> Take(sorter, pos)]
        ELSE [ok |-> FALSE, idx |-> <<>>]

Abs(x) == IF x < 0 THEN -x ELSE x

\* np.isclose(a, b) with the defaults rtol=1e-05, atol=1e-08:
\* |a - b| <= atol + rtol * |b|.  The values of the model are whole numbers,
\* for which 10^8 * |a - b| <= 1 + 10^3 * |b| is 10^5 * |a - b| <= |b|.
IsClose(a, b) == Abs(a - b) * 100000 <= Abs(b)

\* np.allclose(a, b) of two 1-d arrays, with numpy's broadcasting of a
\* length-1 array against the other one.
AllClose(a, b) ==
    IF Len(a) = Len(b) THEN \A x \in DOMAIN a : IsClose(a[x], b[x])
    ELSE IF Len(a) = 1 THEN \A x \in DOMAIN b : IsClose(a[1], b[x])
    ELSE \A x \in DOMAIN a : IsClose(a[x], b[1])

\* Whether two 1-d shapes broadcast together.
Broadcasts(n, k) == n = k \/ n = 1 \/ k = 1

----------------------------------------------------------------------------
(* The canonical store (SoS) and the exchange file *)

Tags == {"wbm", "grades", "grdc", "gbreach", "gbnode", "usgs", "hydro"}

RunTypes == {"constrained", "unconstrained"}

Groups == {"model", "model/grdc", "model/usgs", "gbpriors/reach", "gbpriors/node"}

\* The identifier tables of a store: the same identifiers, each table in its
\* own order.
StoreIds ==
    [t \in {"reaches/reach_id", "nodes/node_id",
            "model/usgs/usgs_reach_id", "model/grdc/grdc_reach_id"} |->
        CASE t = "reaches/reach_id" -> <<30, 10, 20>>
          [] t = "nodes/node_id" -> <<10, 30, 20>>
          [] t = "model/usgs/usgs_reach_id" -> <<20, 30, 10>>
          [] t = "model/grdc/grdc_reach_id" -> <<20, 10, 30>>]

IdSet == {10, 20, 30}

NumRows == Cardinality(IdSet)

\* The time row of the daily variable of a store, and its labels.
\* The labels are floats in the source and are held here in tenths.
TimeRow == <<20010, 20030, 20020>>

TimeLabels == Range(TimeRow)

PayloadValues == {5, 7}

OldValues == {0, 5}

\* '_'.join(tokens) for the prior names of the model.
Join(tokens) ==
    CASE tokens = <<"mean", "q">> -> "mean_q"
      [] tokens = <<"day", "q">> -> "day_q"
      [] OTHER -> "?"

\* f"{prior}t"
WithT(name) == IF name = "day_q" THEN "day_qt" ELSE "?t"

\* str.upper() of a status label
Upper(label) ==
    CASE label = "wbm" -> "WBM" [] label = "grades" -> "GRADES"
      [] label = "grdc" -> "GRDC" [] label = "usgs" -> "USGS"
      [] label = "hydro" -> "HYDRO" [] label = "gbpriors" -> "GBPRIORS"
      [] label = "gbreach" -> "GBREACH" [] label = "gbnode" -> "GBNODE"

\* A store whose variables all hold the value old: under every group a
\* variable over the leading axis, a daily variable over (leading axis, days)
\* and the time labels of the daily variable.
FreshStore(old) ==
    [ids |-> StoreIds,
     vars |-> [g \in Groups |->
        [n \in {"mean_q", "day_q", "day_qt"} |->
            CASE n = "mean_q" -> [r \in 1..NumRows |-> old]
              [] n = "day_q" -> [r \in 1..NumRows |-> [c \in DOMAIN TimeRow |-> old]]
              [] n = "day_qt" -> [r \in 1..NumRows |-> TimeRow]]]]

\* The group names an exchange file may hold: one group of any kind, or
\* NumGroups groups of the variable without a time axis.
KeyLists ==
    {<<<<s>> \o p>> : s \in Tags, p \in {<<"mean", "q">>, <<"day", "q">>}}
    \cup [1..NumGroups -> {<<s, "mean", "q">> : s \in Tags}]

IdVars == {"reach_id", "node_id"}

\* The payloads of a group with n rows and k time columns.
Payloads2(n, k) ==
    {[x \in 1..n |-> [y \in 1..k |-> 5]],
     [x \in 1..n |-> [y \in 1..k |-> 5 + y]],
     [x \in 1..n |-> [y \in 1..k |-> 10 * x + y]]}

\* One group of the exchange file: its run_type attribute and its variables.
MakeGroup(rt, idv, ids, idx, pv, vt) ==
    [run_type |-> rt,
     variables |-> (idv :> ids) @@ ("indexes" :> idx) @@ ("prior_values" :> pv) @@ vt]

NoVar == [v \in {} |-> <<>>]

\* Groups of n rows without a time vector.
ScalarGroups(n) ==
    {MakeGroup(rt, idv, ids, idx, pv, NoVar) :
        rt \in RunTypes, idv \in IdVars,
        ids \in InjSeqs(IdSet, n, n), idx \in InjSeqs(0..(NumRows - 1), n, n),
        pv \in [1..n -> PayloadValues]}

\* Groups of n rows by k time columns; value_t repeats the labels on every row.
TimeGroups(n, k) ==
    {MakeGroup(rt, idv, ids, idx, pv, "value_t" :> [x \in 1..n |-> t]) :
        rt \in RunTypes, idv \in IdVars,
        ids \in InjSeqs(IdSet, n, n), idx \in InjSeqs(0..(NumRows - 1), n, n),
        t \in InjSeqs(TimeLabels, k, k), pv \in Payloads2(n, k)}

\* Groups of a file of several groups: one reach, one value.
SmallGroups ==
    {MakeGroup(rt, "reach_id", <<10>>, idx, <<7>>, NoVar) :
        rt \in RunTypes, idx \in InjSeqs(0..(NumRows - 1), 1, 1)}

\* The contents the group named k may have in a file of numGroups groups.
GroupContents(k, numGroups) ==
    IF numGroups > 1 THEN SmallGroups
    ELSE IF Join(Tail(k)) = "day_q"
    THEN UNION {TimeGroups(n, c) : n \in 1..MaxN, c \in 1..MaxK}
    ELSE UNION {ScalarGroups(n) : n \in 1..MaxN}

----------------------------------------------------------------------------
(* Overwrite *)

\* determine_group whose default is the generic model group.
determine_group_model_default(src) ==
    IF src = "grdc" THEN "model/grdc"
    ELSE IF src = "gbreach" THEN "gbpriors/reach"
    ELSE IF src = "gbnode" THEN "gbpriors/node"
    ELSE IF src = "usgs" THEN "model/usgs"
    ELSE "model"

\* Overwrite.determine_group
determine_group(src) ==
    IF src = "wbm" \/ src = "grades" THEN "model"
    ELSE IF src = "grdc" THEN "model/grdc"
    ELSE IF src = "gbreach" THEN "gbpriors/reach"
    ELSE IF src = "gbnode" THEN "gbpriors/node"
    ELSE "model/usgs"

\* retrieve_ids that reads the global reach table for every source.
retrieve_ids_global(src, g, store) ==
    <<g.variables["reach_id"], store.ids["reaches/reach_id"]>>

\* Overwrite.retrieve_ids: <<prior_ids, sos_ids>>
retrieve_ids(src, g, store) ==
    IF src = "usgs"
    THEN <<g.variables["reach_id"], store.ids["model/usgs/usgs_reach_id"]>>
    ELSE IF src = "grdc"
    THEN <<g.variables["reach_id"], store.ids["model/grdc/grdc_reach_id"]>>
    ELSE <<g.variables["reach_id"], store.ids["reaches/reach_id"]>>

\* The identifier arrays of the test data: retrieve_ids for a group with a
\* reach_id variable, the node identifiers otherwise.
TestIds(src, g, store) ==
    IF "reach_id" \in DOMAIN g.variables
    THEN retrieve_ids(src, g, store)
    ELSE <<g.variables["node_id"], store.ids["nodes/node_id"]>>

\* The largest position of idx that holds offset o (0 when none does): the
\* element of an assignment through idx that lands on o.
LastAt(idx, o) ==
    LET hits == {x \in DOMAIN idx : idx[x] = o}
    IN  IF hits = {} THEN 0 ELSE CHOOSE x \in hits : \A y \in hits : y <= x

\* Write1 that assigns the first value to every row of the selection.
Write1First(var, rows, values) ==
    [r \in DOMAIN var |-> IF LastAt(rows, r - 1) = 0 THEN var[r] ELSE values[1]]

\* var[rows] = values: the netCDF variable after the assignment.
Write1(var, rows, values) ==
    [r \in DOMAIN var |->
        IF LastAt(rows, r - 1) = 0 THEN var[r] ELSE values[LastAt(rows, r - 1)]]

\* var[rows, cols] = row: netCDF4 indexes each axis on its own and broadcasts
\* the 1-d row over the rows of the block.
Write2(var, rows, cols, row) ==
    [r \in DOMAIN var |->
        [c \in DOMAIN var[r] |->
            IF LastAt(rows, r - 1) = 0 \/ LastAt(cols, c - 1) = 0 THEN var[r][c]
            ELSE row[LastAt(cols, c - 1)]]]

\* var[:][rows, cols]: numpy pairs the two index arrays after broadcasting
\* them to one length.
Read2(var, rows, cols) ==
    LET n == Len(rows)
        k == Len(cols)
        len == IF n >= k THEN n ELSE k
    IN  [x \in 1..len |->
            At(At(var, rows[IF n = 1 THEN 1 ELSE x]), cols[IF k = 1 THEN 1 ELSE x])]

\* .astype(int) of the time labels, floats held in tenths: truncation.
AsInt(t) == [x \in DOMAIN t |-> t[x] \div 10]

NoGroup == [run_type |-> "", variables |-> NoVar]

Init ==
    /\ pc = "start"
    /\ keys \in KeyLists
    /\ priors_h = [state |-> "unopened", opens |-> 0]
    /\ \E old \in OldValues : sos = [rt \in RunTypes |-> FreshStore(old)]
    /\ handles = {}
    /\ key = 1
    /\ cur = NoGroup
    /\ source = "" /\ prior = "" /\ run_type = "" /\ group = ""
    /\ prior_indexes = <<>> /\ data = <<>>
    /\ prior_ids = <<>> /\ sos_ids = <<>> /\ test_indexes = <<>> /\ index_t = <<>>
    /\ success = FALSE
    /\ out = <<>>
    /\ entry = <<>> /\ ds = <<>>

\* line 87: priors_ds = Dataset(self.priors_file, 'r')
OpenPriors ==
    /\ pc = "start"
    /\ priors_h' = [state |-> "open", opens |-> priors_h.opens + 1]
    /\ pc' = "loop"
    /\ UNCHANGED <<keys, sos, handles, key, cur, source, prior, run_type,
                   prior_indexes, data, group, prior_ids, sos_ids, test_indexes,
                   index_t, success, out, storeVars>>

\* lines 89-101: the next key; the prior data of its group; the SoS opened in
\* append mode.
ReadGroup ==
    /\ pc = "loop"
    /\ key <= Len(keys)
    /\ \E g \in GroupContents(keys[key], Len(keys)) :
        /\ cur' = g
        /\ run_type' = g.run_type
        /\ prior_indexes' = g.variables["indexes"]
        /\ data' = g.variables["prior_values"]
        /\ handles' = handles \cup {[file |-> g.run_type, key |-> key]}
    /\ source' = Head(keys[key])
    /\ prior' = Join(Tail(keys[key]))
    /\ group' = determine_group(Head(keys[key]))
    /\ pc' = "test"
    /\ UNCHANGED <<keys, priors_h, sos, key, prior_ids, sos_ids, test_indexes,
                   index_t, success, out, storeVars>>

\* TestData that takes the group's precomputed indexes as the test offsets.
TestDataReusesIndexes ==
    /\ pc = "test"
    /\ LET ids == TestIds(source, cur, sos[run_type])
       IN  /\ prior_ids' = ids[1]
           /\ sos_ids' = ids[2]
           /\ test_indexes' = prior_indexes
           /\ pc' = "write"
    /\ UNCHANGED <<keys, priors_h, sos, handles, key, cur, source, prior,
                   run_type, prior_indexes, data, group, index_t, success, out,
                   storeVars>>

\* lines 104-110: the identifiers of both sides and the offsets of the
\* group's identifiers in the store's identifier array.
TestData ==
    /\ pc = "test"
    /\ LET ids == TestIds(source, cur, sos[run_type])
           off == Offsets(ids[2], ids[1])
       IN  /\ prior_ids' = ids[1]
           /\ sos_ids' = ids[2]
           /\ test_indexes' = off.idx
           /\ pc' = IF off.ok THEN "write" ELSE "error"
    /\ UNCHANGED <<keys, priors_h, sos, handles, key, cur, source, prior,
                   run_type, prior_indexes, data, group, index_t, success, out,
                   storeVars>>

\* lines 113-119: the time offsets, the write of data[0] at
\* [prior_indexes, index_t] and the read-back at [test_indexes, index_t].
OverwriteTime ==
    LET vs == sos[run_type].vars[group]
        prior_t == AsInt(cur.variables["value_t"][1])
        sos_t == AsInt(vs[WithT(prior)][1])
        off == Offsets(sos_t, prior_t)
        written == Write2(vs[prior], prior_indexes, off.idx, data[1])
    IN  /\ index_t' = off.idx
        /\ IF ~off.ok \/ ~InBounds(vs[prior], prior_indexes)
           THEN pc' = "error" /\ UNCHANGED <<sos, success>>
           ELSE /\ sos' = [sos EXCEPT ![run_type].vars[group][prior] = written]
                /\ IF Broadcasts(Len(test_indexes), Len(off.idx))
                   THEN /\ success' = AllClose(data[1], Read2(written, test_indexes, off.idx))
                        /\ pc' = "status"
                   ELSE pc' = "error" /\ UNCHANGED success

\* lines 121-122: the write of data at [prior_indexes] and the read-back at
\* [test_indexes].
OverwriteRows ==
    LET vs == sos[run_type].vars[group]
        written == Write1(vs[prior], prior_indexes, data)
    IN  /\ UNCHANGED index_t
        /\ IF ~InBounds(vs[prior], prior_indexes)
           THEN pc' = "error" /\ UNCHANGED <<sos, success>>
           ELSE /\ sos' = [sos EXCEPT ![run_type].vars[group][prior] = written]
                /\ success' = AllClose(data, Take(written, test_indexes))
                /\ pc' = "status"

\* lines 113-122
Overwrite ==
    /\ pc = "write"
    /\ IF "value_t" \in DOMAIN cur.variables THEN OverwriteTime ELSE OverwriteRows
    /\ UNCHANGED <<keys, priors_h, handles, key, cur, source, prior, run_type,
                   prior_indexes, data, group, prior_ids, sos_ids, test_indexes,
                   out, storeVars>>

\* The label of a status line: gbreach and gbnode are reported as gbpriors.
StatusLabel(src) == IF src = "gbreach" \/ src = "gbnode" THEN "gbpriors" ELSE src

\* Status that leaves the store open.
StatusNoClose ==
    /\ pc = "status"
    /\ source' = StatusLabel(source)
    /\ out' = Append(out, [ok |-> success, source |-> Upper(StatusLabel(source)),
                           prior |-> prior, run_type |-> run_type])
    /\ key' = key + 1
    /\ pc' = "loop"
    /\ UNCHANGED <<keys, priors_h, sos, handles, cur, prior, run_type,
                   prior_indexes, data, group, prior_ids, sos_ids, test_indexes,
                   index_t, success, storeVars>>

\* Status that raises after the line of a failed verification.
StatusFatalFailure ==
    /\ pc = "status"
    /\ source' = StatusLabel(source)
    /\ out' = Append(out, [ok |-> success, source |-> Upper(StatusLabel(source)),
                           prior |-> prior, run_type |-> run_type])
    /\ IF success
       THEN /\ handles' = handles \ {[file |-> run_type, key |-> key]}
            /\ key' = key + 1
            /\ pc' = "loop"
       ELSE pc' = "error" /\ UNCHANGED <<handles, key>>
    /\ UNCHANGED <<keys, priors_h, sos, cur, prior, run_type, prior_indexes,
                   data, group, prior_ids, sos_ids, test_indexes, index_t,
                   success, storeVars>>

\* lines 125-132: the status line; sos_ds.close()
Status ==
    /\ pc = "status"
    /\ source' = StatusLabel(source)
    /\ out' = Append(out, [ok |-> success, source |-> Upper(StatusLabel(source)),
                           prior |-> prior, run_type |-> run_type])
    /\ handles' = handles \ {[file |-> run_type, key |-> key]}
    /\ key' = key + 1
    /\ pc' = "loop"
    /\ UNCHANGED <<keys, priors_h, sos, cur, prior, run_type, prior_indexes,
                   data, group, prior_ids, sos_ids, test_indexes, index_t,
                   success, storeVars>>

\* line 133: priors_ds.close()
ClosePriors ==
    /\ pc = "loop"
    /\ key > Len(keys)
    /\ priors_h' = [priors_h EXCEPT !.state = "closed"]
    /\ pc' = "done"
    /\ UNCHANGED <<keys, sos, handles, key, cur, source, prior, run_type,
                   prior_indexes, data, group, prior_ids, sos_ids, test_indexes,
                   index_t, success, out, storeVars>>

Next ==
    \/ OpenPriors
    \/ ReadGroup
    \/ TestData
    \/ Overwrite
    \/ Status
    \/ ClosePriors

Spec == Init /\ [][Next]_vars

\* The exchange files of several groups from two of the sources.
FairInit ==
    /\ Init
    /\ Len(keys) = NumGroups
    /\ \A g \in DOMAIN keys : Head(keys[g]) \in {"usgs", "gbnode"}

\* The loop is sequential, blocking code: it runs until it returns or raises.
FairSpec == FairInit /\ [][Next]_vars /\ WF_vars(Next)

----------------------------------------------------------------------------
(* The offsets of lines 109-110 on their own, over every small input *)

engineLocals == <<keys, priors_h, sos, handles, key, cur, source, prior,
                  run_type, prior_indexes, data, group, index_t, out>>

Idle ==
    /\ keys = <<>>
    /\ priors_h = [state |-> "unopened", opens |-> 0]
    /\ sos = <<>>
    /\ handles = {}
    /\ key = 1
    /\ cur = NoGroup
    /\ source = "" /\ prior = "" /\ run_type = "" /\ group = ""
    /\ prior_indexes = <<>> /\ data = <<>> /\ index_t = <<>>
    /\ out = <<>>

OffsetInit ==
    /\ Idle
    /\ pc = "ids"
    /\ sos_ids \in InjSeqs(IdUniverse, 1, MaxIds)
    /\ prior_ids \in SeqsUpTo(IdUniverse, 0, MaxSrc)
    /\ test_indexes = <<>>
    /\ success = FALSE
    /\ entry = <<>> /\ ds = <<>>

\* lines 109-110; success records that the indexing did not raise.
ResolveOffsets ==
    /\ pc = "ids"
    /\ test_indexes' = Offsets(sos_ids, prior_ids).idx
    /\ success' = Offsets(sos_ids, prior_ids).ok
    /\ pc' = "offsets"
    /\ UNCHANGED <<engineLocals, prior_ids, sos_ids, storeVars>>

OffsetNext == ResolveOffsets

OffsetSpec == OffsetInit /\ [][OffsetNext]_vars

----------------------------------------------------------------------------
(* PriorStore *)

NODE_LIST == {"river_type", "logA0_hat", "logn_hat", "b_hat", "logWb_hat",
              "logDb_hat", "logr_hat", "logA0_sd", "logn_sd", "b_sd",
              "logWb_sd", "logDb_sd", "logr_sd", "sigma_man", "sigma_amhg"}
MONTHS_LIST == {"monthly_q"}
DAYS_LIST == {"grdc_q", "usgs_q"}
PROB_LIST == {"flow_duration_q"}

\* Prior names of no list
OtherPriors == {"mean_q", "two_year_return_q"}

PriorNames == NODE_LIST \cup MONTHS_LIST \cup DAYS_LIST \cup PROB_LIST \cup OtherPriors

\* The keys of one prior's data dictionary.
DataKeys ==
    {{"run_type", "indexes", "values", "data_type"} \cup ids \cup t :
        ids \in {{"reach_ids"}, {"node_ids"}}, t \in {{}, {"value_t"}}}

\* PriorStore.create_dimensions
create_dimensions(src, num_reaches, num_nodes) ==
    (IF num_reaches # 0 THEN {"num_reaches"} ELSE {})
    \cup (IF num_nodes # 0 THEN {"num_nodes"} ELSE {})
    \cup (IF src = "wbm" \/ src = "grades" \/ src = "grdc" \/ src = "usgs"
          THEN {"num_months", "probability"} ELSE {})
    \cup (IF src = "grdc" THEN {"num_days"} ELSE {})
    \cup (IF src = "usgs" THEN {"num_days", "nchars"} ELSE {})

\* One createVariable and the assignment that fills it.
Stmt(name, dims, from) == [name |-> name, dims |-> dims, from |-> from]

ReachHead ==
    <<Stmt("reach_id", <<"num_reaches">>, "reach_ids"),
      Stmt("indexes", <<"num_reaches">>, "indexes")>>

\* create_variables that takes the node branch for every source.
create_variables_by_list(src, p) ==
    IF p \in NODE_LIST
    THEN <<Stmt("node_id", <<"num_nodes">>, "node_ids"),
           Stmt("indexes", <<"num_nodes">>, "indexes"),
           Stmt("prior_values", <<"num_nodes">>, "values")>>
    ELSE IF p \in PROB_LIST
    THEN ReachHead \o <<Stmt("prior_values", <<"num_reaches", "probability">>, "values")>>
    ELSE IF p \in MONTHS_LIST
    THEN ReachHead \o <<Stmt("prior_values", <<"num_reaches", "num_months">>, "values")>>
    ELSE IF p \in DAYS_LIST
    THEN ReachHead \o <<Stmt("prior_values", <<"num_reaches", "num_days">>, "values"),
                        Stmt("value_t", <<"num_reaches", "num_days">>, "value_t")>>
    ELSE ReachHead \o <<Stmt("prior_values", <<"num_reaches">>, "values")>>

\* PriorStore.create_variables: the variables of the branch taken, in order.
create_variables(src, p) ==
    IF src = "gbnode" /\ p \in NODE_LIST
    THEN <<Stmt("node_id", <<"num_nodes">>, "node_ids"),
           Stmt("indexes", <<"num_nodes">>, "indexes"),
           Stmt("prior_values", <<"num_nodes">>, "values")>>
    ELSE IF p \in PROB_LIST
    THEN ReachHead \o <<Stmt("prior_values", <<"num_reaches", "probability">>, "values")>>
    ELSE IF p \in MONTHS_LIST
    THEN ReachHead \o <<Stmt("prior_values", <<"num_reaches", "num_months">>, "values")>>
    ELSE IF p \in DAYS_LIST
    THEN ReachHead \o <<Stmt("prior_values", <<"num_reaches", "num_days">>, "values"),
                        Stmt("value_t", <<"num_reaches", "num_days">>, "value_t")>>
    ELSE ReachHead \o <<Stmt("prior_values", <<"num_reaches">>, "values")>>

\* The statements of plan that run before one raises: createVariable needs
\* its dimensions, the assignment needs its key of the data.
RECURSIVE Created(_, _, _)
Created(plan, dims, dataKeys) ==
    IF plan = <<>> THEN <<>>
    ELSE IF ~(Range(Head(plan).dims) \subseteq dims) THEN <<>>
    ELSE IF Head(plan).from \notin dataKeys THEN <<Head(plan)>>
    ELSE <<Head(plan)>> \o Created(Tail(plan), dims, dataKeys)

Completes(plan, dims, dataKeys) ==
    \A x \in DOMAIN plan :
        Range(plan[x].dims) \subseteq dims /\ plan[x].from \in dataKeys

NoDs == [dims |-> {}, variables |-> <<>>]

StoreInit ==
    /\ Idle
    /\ prior_ids = <<>> /\ sos_ids = <<>> /\ test_indexes = <<>> /\ success = FALSE
    /\ pc = "entry"
    /\ entry \in [source : Tags, prior : PriorNames, data : DataKeys, count : 0..MaxN]
    /\ ds = NoDs

\* lines 100-109: the group of the entry and its dimensions
CreateGroup ==
    /\ pc = "entry"
    /\ ds' = [ds EXCEPT !.dims =
                IF "reach_ids" \in entry.data
                THEN create_dimensions(entry.source, entry.count, 0)
                ELSE create_dimensions(entry.source, 0, entry.count)]
    /\ pc' = "group"
    /\ UNCHANGED <<engineLocals, prior_ids, sos_ids, test_indexes, success, entry>>

\* line 112: self.create_variables(source, prior, data, g)
CreateVariables ==
    /\ pc = "group"
    /\ LET plan == create_variables(entry.source, entry.prior)
       IN  /\ ds' = [ds EXCEPT !.variables = Created(plan, ds.dims, entry.data)]
           /\ pc' = IF Completes(plan, ds.dims, entry.data) THEN "created" ELSE "error"
    /\ UNCHANGED <<engineLocals, prior_ids, sos_ids, test_indexes, success, entry>>

StoreNext == CreateGroup \/ CreateVariables

StoreSpec == StoreInit /\ [][StoreNext]_vars

----------------------------------------------------------------------------
(* Claims *)

HasTime == "value_t" \in DOMAIN cur.variables

HasReach == "reach_id" \in DOMAIN cur.variables

\* The destination variable of the current group.
DestVar == sos[run_type].vars[group][prior]

\* C1: for store_ids with pairwise distinct values and source_ids whose
\* elements all occur in store_ids, the offsets are computed without error
\* and store_ids[offsets[i]] = source_ids[i] for every i.
C1_OffsetsRecoverPositions ==
    (pc = "offsets" /\ Range(prior_ids) \subseteq Range(sos_ids)) =>
        /\ success
        /\ Len(test_indexes) = Len(prior_ids)
        /\ \A x \in DOMAIN prior_ids : At(sos_ids, test_indexes[x]) = prior_ids[x]

C1_Witness ==
    /\ pc = "offsets"
    /\ sos_ids = <<30, 10, 20>>
    /\ prior_ids = <<20, 30>>
    /\ test_indexes = <<2, 0>>

\* The position of the record's y-th time label in the destination's time row.
TimePos(y) ==
    LET row == AsInt(sos[run_type].vars[group][WithT(prior)][1])
        label == AsInt(cur.variables["value_t"][1])[y]
    IN  CHOOSE c \in 0..(Len(row) - 1) : At(row, c) = label

\* C2: after a group with a time vector has been processed, the destination
\* variable holds payload[i][j] at (destination_index[i], time_offsets[j]) for
\* every row i and every column j.
C2_TwoAxisWriteHoldsPayload ==
    (pc = "status" /\ HasTime) =>
        \A x \in DOMAIN data : \A y \in DOMAIN data[x] :
            At(At(DestVar, prior_indexes[x]), TimePos(y)) = data[x][y]

\* C3: for a group without a time vector whose destination_index equals the
\* offsets derived from its identifiers, the destination holds payload[i] at
\* destination_index[i], the read-back at the derived offsets equals the
\* payload, and the group is reported as success.
C3_SingleAxisWriteVerified ==
    /\ (pc = "status" /\ ~HasTime /\ prior_indexes = test_indexes) =>
        /\ \A x \in DOMAIN data : At(DestVar, prior_indexes[x]) = data[x]
        /\ Take(DestVar, Offsets(sos_ids, prior_ids).idx) = data
        /\ success
    /\ (pc \in {"loop", "done"} /\ out # <<>> /\ ~HasTime /\ prior_indexes = test_indexes) =>
        /\ out[Len(out)].ok
        /\ \A x \in DOMAIN data : At(DestVar, prior_indexes[x]) = data[x]

C3_Witness ==
    /\ pc = "loop"
    /\ out # <<>> /\ out[Len(out)].ok
    /\ sos_ids = <<30, 10, 20>>
    /\ prior_ids = <<20, 30>>
    /\ data = <<5, 7>>
    /\ prior_indexes = <<2, 0>>
    /\ DestVar[1] = 7 /\ DestVar[3] = 5

\* The routing table of the claim.
RouteTable(src) ==
    CASE src \in {"wbm", "grades"} -> "model"
      [] src = "grdc" -> "model/grdc"
      [] src = "gbreach" -> "gbpriors/reach"
      [] src = "gbnode" -> "gbpriors/node"
      [] OTHER -> "model/usgs"

InGroup == pc \in {"test", "write", "status", "error"}

\* C4: determine_group returns, for every source tag, one of the five paths:
\* the path of the fixed table, and model/usgs for every other tag.
C4_RoutingFixed ==
    InGroup => group \in Groups /\ group = RouteTable(Head(keys[key]))

C4_Witness ==
    /\ pc = "test"
    /\ Head(keys[key]) = "hydro"
    /\ group = "model/usgs"

\* The store's identifier table of the claim, for a group with reach_id.
ReachTable(src) ==
    CASE src = "usgs" -> "model/usgs/usgs_reach_id"
      [] src = "grdc" -> "model/grdc/grdc_reach_id"
      [] OTHER -> "reaches/reach_id"

\* C5: without a reach_id variable the identifiers are the group's node_id
\* and the store's nodes/node_id; otherwise the group's reach_id and the
\* store's table chosen by the source.
C5_IdResolution ==
    pc \in {"write", "status"} =>
        IF ~HasReach
        THEN /\ prior_ids = cur.variables["node_id"]
             /\ sos_ids = sos[run_type].ids["nodes/node_id"]
        ELSE /\ prior_ids = cur.variables["reach_id"]
             /\ sos_ids = sos[run_type].ids[ReachTable(Head(keys[key]))]

C5_Witness ==
    /\ pc = "write"
    /\ HasReach
    /\ Head(keys[key]) = "grdc"
    /\ sos_ids = <<20, 10, 30>>
    /\ prior_ids = cur.variables["reach_id"]

\* The status line of group g says what was merged.
LineOf(g) ==
    /\ out[g].source = Upper(StatusLabel(Head(keys[g])))
    /\ out[g].prior = Join(Tail(keys[g]))

C6_OneLinePerGroup ==
    /\ Len(out) = IF pc = "start" THEN 0 ELSE key - 1
    /\ \A g \in DOMAIN out : g <= Len(keys) /\ LineOf(g)
    /\ pc = "done" => Len(out) = Len(keys)

C6_FailureContinues ==
    (pc = "status" /\ ~success) =>
        /\ pc' = "loop"
        /\ key' = key + 1
        /\ out' = Append(out, [ok |-> FALSE, source |-> Upper(StatusLabel(source)),
                               prior |-> prior, run_type |-> run_type])

\* The progress of the run: each step of the loop raises it.
Rank(p, k) ==
    4 * k + CASE p = "start" -> 0 [] p = "loop" -> 1 [] p = "test" -> 2
              [] p = "write" -> 3 [] p = "status" -> 4 [] OTHER -> 5

C7_SequentialLifecycle ==
    /\ Cardinality(handles) <= 1
    /\ pc \in {"start", "loop", "done"} => handles = {}
    /\ InGroup => handles = {[file |-> run_type, key |-> key]}
    /\ priors_h.opens = IF pc = "start" THEN 0 ELSE 1
    /\ priors_h.state = CASE pc = "start" -> "unopened"
                          [] pc = "done" -> "closed"
                          [] OTHER -> "open"

C7_Witness ==
    /\ pc = "test"
    /\ key = 2
    /\ out[1].run_type # run_type
    /\ handles = {[file |-> run_type, key |-> 2]}

\* The variables of each shape: <<name, dimensions>>
ShapeVariables(shape) ==
    CASE shape = "node-scalar" ->
            <<<<"node_id", <<"num_nodes">>>>, <<"indexes", <<"num_nodes">>>>,
              <<"prior_values", <<"num_nodes">>>>>>
      [] shape = "reach-by-probability" ->
            <<<<"reach_id", <<"num_reaches">>>>, <<"indexes", <<"num_reaches">>>>,
              <<"prior_values", <<"num_reaches", "probability">>>>>>
      [] shape = "reach-by-month" ->
            <<<<"reach_id", <<"num_reaches">>>>, <<"indexes", <<"num_reaches">>>>,
              <<"prior_values", <<"num_reaches", "num_months">>>>>>
      [] shape = "reach-by-day" ->
            <<<<"reach_id", <<"num_reaches">>>>, <<"indexes", <<"num_reaches">>>>,
              <<"prior_values", <<"num_reaches", "num_days">>>>,
              <<"value_t", <<"num_reaches", "num_days">>>>>>
      [] shape = "reach-scalar" ->
            <<<<"reach_id", <<"num_reaches">>>>, <<"indexes", <<"num_reaches">>>>,
              <<"prior_values", <<"num_reaches">>>>>>

\* The shape of a prior name by the category lists alone.
ListShape(p) ==
    CASE p \in NODE_LIST -> "node-scalar"
      [] p \in PROB_LIST -> "reach-by-probability"
      [] p \in MONTHS_LIST -> "reach-by-month"
      [] p \in DAYS_LIST -> "reach-by-day"
      [] OTHER -> "reach-scalar"

\* The shape by source and lists: the node list counts for gbnode only.
SourceShape(src, p) ==
    IF p \in NODE_LIST /\ src # "gbnode" THEN "reach-scalar" ELSE ListShape(p)

Declared == [x \in DOMAIN ds.variables |-> <<ds.variables[x].name, ds.variables[x].dims>>]

IsPrefix(a, b) == Len(a) <= Len(b) /\ a = SubSeq(b, 1, Len(a))

DerivedOffsets == Offsets(sos_ids, prior_ids).idx

\* All values of the payload.
PayloadSet ==
    IF HasTime THEN UNION {Range(data[x]) : x \in DOMAIN data} ELSE Range(data)

\* Row r of the destination holds no value close to a payload value.
RowDiffers(r) ==
    LET row == At(DestVar, r)
    IN  IF HasTime
        THEN \A c \in DOMAIN row : \A v \in PayloadSet : ~IsClose(v, row[c])
        ELSE \A v \in PayloadSet : ~IsClose(v, row)

C9_IndependentOffsets ==
    pc \in {"write", "status"} =>
        LET ids == TestIds(Head(keys[key]), cur, sos[run_type])
        IN  test_indexes = Offsets(ids[2], ids[1]).idx

C9_MissedRowFails ==
    (/\ pc = "write" /\ pc' = "status"
     /\ \E x \in DOMAIN DerivedOffsets :
            /\ DerivedOffsets[x] \notin Range(prior_indexes)
            /\ RowDiffers(DerivedOffsets[x]))
        => ~success'

C9_Reported ==
    pc = "status" => out' = Append(out, [ok |-> success, source |-> Upper(StatusLabel(source)),
                                         prior |-> prior, run_type |-> run_type])

C10_RoutingMatchesIdTable ==
    (pc \in {"write", "status"} /\ HasReach) =>
        /\ group = "model/usgs" => sos_ids = sos[run_type].ids["model/usgs/usgs_reach_id"]
        /\ group = "model/grdc" => sos_ids = sos[run_type].ids["model/grdc/grdc_reach_id"]

====
